---- MODULE Spec2Model ----
(***************************************************************************)
(* Model of vc_scraper.py: the escalation pipeline of extract_companies    *)
(* (JSON API probing, static HTML extraction, Playwright extraction and    *)
(* the arbitration between their results) and extract_with_playwright.     *)
(***************************************************************************)
EXTENDS Integers, Sequences, FiniteSets, TLC

(***************************************************************************)
(* Python str values.  A string is abstracted to the attributes the code   *)
(* inspects:                                                               *)
(*   form   shape of the text: "https"/"http" absolute URL, "search" (the  *)
(*          search-engine query URL), "rel" (/path), "schemerel"           *)
(*          (//host/path), "colon" (https:host/path), "invalid" (urljoin   *)
(*          raises ValueError on it), "text" (link text), "cap" (a         *)
(*          capitalized domain)                                            *)
(*   dom    tldextract.extract(s).domain.lower()                           *)
(*   id     tells apart strings of the same form and domain                *)
(*   len    len(s)                                                         *)
(*   words  len(s.split())                                                 *)
(*   nav    s.lower() contains a navigation word (lines 373-376)           *)
(*   stop   s.lower() contains a stop word (line 382)                      *)
(*   up     s contains an upper-case letter                                *)
(***************************************************************************)
Str(form, dom, id, len, words, nav, stop, up) ==
    [form |-> form, dom |-> dom, id |-> id, len |-> len, words |-> words,
     nav |-> nav, stop |-> stop, up |-> up]

EmptyStr == Str("text", "", 0, 0, 0, FALSE, FALSE, FALSE)

\* A link text of the given length: one word, mixed case, no nav/stop word.
Txt(id, len) == Str("text", "", id, len, 1, FALSE, FALSE, TRUE)

\* A URL-shaped string.
Url(form, dom, id) == Str(form, dom, id, 16 + Len(dom), 1, FALSE, FALSE, FALSE)

\* Python truthiness of a str.
Truthy(s) == s.len > 0

\* str.lower()
Lower(s) == [s EXCEPT !.up = FALSE]

\* str.capitalize() of a (lower-case) domain
Capitalize(dom) ==
    IF dom = "" THEN EmptyStr
    ELSE Str("cap", dom, 0, Len(dom), 1, FALSE, FALSE, TRUE)

\* tldextract.extract(s).domain.lower()
Domain(s) == s.dom

BLOCKLIST_DOMAINS ==
    {"linkedin", "twitter", "facebook", "instagram",
     "medium", "github", "youtube", "notion", "airtable",
     "calendar", "crunchbase", "google", "apple", "figma"}

\* normalize(url), lines 62-65: "" for a falsy input, "https:" + url[2:]
\* for an input that starts with "//" (the two slashes are cut off), the
\* input itself otherwise.
Normalize(u) ==
    IF ~Truthy(u) THEN EmptyStr
    ELSE IF u.form = "schemerel"
         THEN [u EXCEPT !.form = "colon", !.dom = "https", !.len = u.len + 4]
         ELSE u

\* urljoin raises ValueError on some hrefs (an unbalanced "[" in the host).
JoinRaises(h) == h.form = "invalid"

\* urllib.parse.urljoin(base, h): an absolute URL is kept; anything without
\* a network location is resolved against the base, and so is "https:rest"
\* when the base has the same scheme.
UrlJoin(base, h) ==
    IF ~Truthy(h) THEN base
    ELSE IF h.form \in {"https", "http", "search"} THEN h
    ELSE IF h.form = "colon"
         THEN IF base.form # "https" THEN h
              ELSE IF h.id = 0 THEN base
              ELSE [h EXCEPT !.form = base.form, !.dom = base.dom]
    ELSE [h EXCEPT !.form = base.form, !.dom = base.dom]

(***************************************************************************)
(* Bounds of the model.                                                    *)
(***************************************************************************)
\* most items in one API response
MaxItems == 2
\* most hand-picked input elements one run handles: rows taken from API
\* answers, plus hand-picked anchors and signals of the fetched page, plus
\* hand-picked anchors of the rendered page
MaxElems == 2
\* sizes of the generated link lists of a fetched page
BulkSmall == 12
BulkMid == 20
BulkLarge == 50
\* sizes of the generated link lists of a rendered page
PwMid == 22
PwBig == 30
PwLarge == 55

\* wp_api_endpoints has four entries
NumEndpoints == 4

(***************************************************************************)
(* The target and the strings the inputs are built from.                   *)
(***************************************************************************)
TargetUrl == Url("https", "vc", 1)

NameA == Txt(1, 4)
NameB == Txt(2, 9)
NameShort == Txt(3, 1)
UrlE1 == Url("https", "acme", 1)
UrlE2 == Url("https", "beta", 1)

\* f"https://www.google.com/search?q={name.replace(' ', '+')}+company"
Placeholder(name) == Url("search", "google", name.id)

(***************************************************************************)
(* JSON API (lines 283-318).  A JSON value is tagged with its type:        *)
(* "str", "rendered" ({"rendered": <str>}), "rendered_null"                *)
(* ({"rendered": null}), "acf" (a dict whose company_website is s, "" when *)
(* absent), "num".  An item is a dict of fields or something else.         *)
(***************************************************************************)
JVal(t, s) == [t |-> t, s |-> s]

NameFields == <<"title", "name", "company_name", "company">>
UrlFields == <<"website", "company_website", "url", "link", "acf">>

Min(S) == CHOOSE x \in S : \A y \in S : x <= y

\* first field of the list that the item has, 0 when none (for ... break)
FirstField(fields, item) ==
    LET present == {i \in 1..Len(fields) : fields[i] \in DOMAIN item.f}
    IN IF present = {} THEN 0 ELSE Min(present)

\* lines 294-300: .strip() on a rendered value that is no str raises
NameRaises(item) ==
    LET i == FirstField(NameFields, item)
    IN i # 0 /\ item.f[NameFields[i]].t = "rendered_null"

ItemName(item) ==
    LET i == FirstField(NameFields, item)
    IN IF i = 0 THEN EmptyStr
       ELSE LET v == item.f[NameFields[i]]
            IN IF v.t \in {"rendered", "str"} THEN v.s ELSE EmptyStr

\* lines 303-309
ItemWebsite(item) ==
    LET i == FirstField(UrlFields, item)
    IN IF i = 0 THEN EmptyStr
       ELSE LET v == item.f[UrlFields[i]]
            IN IF UrlFields[i] = "acf" /\ v.t = "acf" THEN v.s
               ELSE IF v.t = "str" THEN v.s
               ELSE EmptyStr

\* lines 311-313: the row an item contributes, if any
ItemRows(item) ==
    LET name == ItemName(item)
        website == ItemWebsite(item)
    IN IF Truthy(name) /\ name.len > 1
       THEN <<<<name, IF Truthy(website) THEN website ELSE Placeholder(name)>>>>
       ELSE <<>>

\* lines 288-313: the loop over api_data, appending to rows until an item
\* raises.  Yields the rows and whether the loop raised.
RECURSIVE ApiLoop(_, _)
ApiLoop(items, rows0) ==
    IF items = <<>> THEN [rows |-> rows0, raised |-> FALSE]
    ELSE LET item == Head(items)
         IN IF ~item.isdict THEN ApiLoop(Tail(items), rows0)
            ELSE IF NameRaises(item) THEN [rows |-> rows0, raised |-> TRUE]
            ELSE ApiLoop(Tail(items), rows0 \o ItemRows(item))

ItemFull == [isdict |-> TRUE,
             f |-> [title |-> JVal("rendered", NameA), website |-> JVal("str", UrlE1)]]
ItemAcf == [isdict |-> TRUE,
            f |-> [company_name |-> JVal("str", NameA), acf |-> JVal("acf", UrlE1)]]
ItemNoUrl == [isdict |-> TRUE, f |-> [name |-> JVal("str", NameB)]]
ItemShort == [isdict |-> TRUE,
              f |-> [company |-> JVal("str", NameShort), link |-> JVal("str", UrlE2)]]
ItemBad == [isdict |-> TRUE, f |-> [title |-> JVal("rendered_null", EmptyStr)]]
ItemNonDict == [isdict |-> FALSE, f |-> [none |-> JVal("num", EmptyStr)]]

ItemPool == {ItemFull, ItemAcf, ItemNoUrl, ItemShort, ItemBad, ItemNonDict}

SeqsUpTo(S, n) == UNION {[1..k -> S] : k \in 0..n}

\* What one endpoint answers: HEAD is not 200 ("down"), a request raises
\* ("error"), the body is no JSON ("badjson"), or a JSON list.
ApiResponses ==
    {[kind |-> k, items |-> <<>>] : k \in {"down", "error", "badjson"}}
    \cup {[kind |-> "json", items |-> s] : s \in SeqsUpTo(ItemPool, MaxItems)}

(***************************************************************************)
(* Static HTML extraction (lines 325-365).  An anchor of the parsed page:  *)
(*   href   a["href"] after html.unescape                                  *)
(*   text   a.get_text(" ", strip=True) with whitespace collapsed          *)
(*   card   a.find(class_="portfolio-card") finds something                *)
(*   hasH4, h4   a.find("h4") and its get_text(strip=True)                  *)
(***************************************************************************)
Anchor(href, text, card, hasH4, h4) ==
    [href |-> href, text |-> text, card |-> card, hasH4 |-> hasH4, h4 |-> h4]

\* lines 335-336 and 349-350: the link is no candidate
Rejected(dom, own) == dom = "" \/ dom = own \/ dom \in BLOCKLIST_DOMAINS

\* lines 330-344: one iteration of the portfolio-card pass.
\* acc = [rows, seen, raised]; the name, not the href, goes into seen.
CardStep(acc, a, base, own) ==
    IF ~a.card THEN acc
    ELSE IF a.href.form = "schemerel" /\ a.href.id = 0 THEN acc
    ELSE IF JoinRaises(Normalize(a.href)) THEN [acc EXCEPT !.raised = TRUE]
    ELSE LET href == UrlJoin(base, Normalize(a.href))
             name == IF a.hasH4 THEN a.h4 ELSE a.text
         IN IF Rejected(Domain(href), own) THEN acc
            ELSE IF Truthy(name) /\ name.len <= 80 /\ href \notin acc.seen
                 THEN [acc EXCEPT !.rows = Append(@, <<name, href>>),
                                  !.seen = @ \cup {name}]
                 ELSE acc

\* lines 347-356: one iteration of the generic pass.
GenericStep(acc, a, base, own) ==
    IF JoinRaises(Normalize(a.href)) THEN [acc EXCEPT !.raised = TRUE]
    ELSE LET href == UrlJoin(base, Normalize(a.href))
             dom == Domain(href)
             name == IF Truthy(a.text) THEN a.text ELSE Capitalize(dom)
         IN IF Rejected(dom, own) THEN acc
            ELSE IF href \in acc.seen \/ name.len > 100 THEN acc
            ELSE [acc EXCEPT !.rows = Append(@, <<name, href>>),
                             !.seen = @ \cup {href}]

\* for a in soup.find_all("a", href=True): the loop stops where a step raises.
\* (The singleton sets bind the rest of the list and the outcome of the step,
\* so that each is computed once.)
RECURSIVE CardPass(_, _, _, _)
CardPass(links, acc, base, own) ==
    IF links = <<>> \/ acc.raised THEN acc
    ELSE CHOOSE out \in {CardPass(rest, step, base, own) :
                             rest \in {Tail(links)},
                             step \in {CardStep(acc, Head(links), base, own)}} : TRUE

RECURSIVE GenericPass(_, _, _, _)
GenericPass(links, acc, base, own) ==
    IF links = <<>> \/ acc.raised THEN acc
    ELSE CHOOSE out \in {GenericPass(rest, step, base, own) :
                             rest \in {Tail(links)},
                             step \in {GenericStep(acc, Head(links), base, own)}} : TRUE

\* lines 359-361: anchor_rows first, then the generic rows under other names
MergeRows(cards, generic) ==
    IF Len(cards) >= 5
    THEN LET names == {cards[i][1] : i \in 1..Len(cards)}
         IN cards \o SelectSeq(generic, LAMBDA row : row[1] \notin names)
    ELSE generic

\* lines 371-385: the name counts as a real company name
QualityName(name) ==
    /\ ~name.nav
    /\ ~(name.len > 50 \/ name.words > 5)
    /\ ~name.stop

QualityCount(rs) ==
    Cardinality({i \in 1..Len(rs) : QualityName(rs[i][1])})

(***************************************************************************)
(* Fetched pages.  A page has hand-picked anchors followed by a generated  *)
(* list of links to distinct companies, and the two signals of lines       *)
(* 391-398.                                                                *)
(***************************************************************************)
NoH4(href, text, card) == Anchor(href, text, card, FALSE, EmptyStr)

AExt == NoH4(UrlE1, NameA, FALSE)
AExtAgain == NoH4(UrlE1, NameB, FALSE)
ACard == Anchor(UrlE2, Txt(4, 30), TRUE, TRUE, NameB)
ARelative == NoH4(Url("rel", "", 2), Txt(6, 5), FALSE)
ABlocked == NoH4(Url("https", "linkedin", 1), Txt(7, 8), FALSE)
ANoDomain == NoH4(Url("https", "", 3), Txt(8, 6), FALSE)
ASchemeRel == NoH4(Url("schemerel", "gamma", 1), Txt(9, 5), FALSE)
AInvalid == NoH4(Url("invalid", "", 4), Txt(11, 7), FALSE)
ANoText == NoH4(Url("https", "delta", 1), EmptyStr, FALSE)
ALongText == NoH4(Url("https", "omega", 1), Txt(12, 120), FALSE)

AnchorPool == {AExt, AExtAgain, ACard, ARelative, ABlocked,
               ANoDomain, ASchemeRel, AInvalid, ANoText, ALongText}

\* i-th generated link: a plain link whose text is the company name, or a
\* portfolio card whose <h4> is the name and whose text is a description
BulkAnchor(i, variant) ==
    IF variant = "card"
    THEN Anchor(Url("https", "startup", i), Str("text", "", 200 + i, 60, 9, FALSE, TRUE, TRUE),
                TRUE, TRUE, Txt(100 + i, 6))
    ELSE NoH4(Url("https", "startup", i), Txt(100 + i, 6), FALSE)

Bulk(n, variant) == [i \in 1..n |-> BulkAnchor(i, variant)]

Page(picked, n, variant, large, pagination) ==
    [picked |-> picked, bulk |-> n, variant |-> variant,
     large |-> large, pagination |-> pagination]

NoPage == Page(<<>>, 0, "none", FALSE, FALSE)

PageAnchors(p) == p.picked \o Bulk(p.bulk, p.variant)

BulkCounts == {BulkSmall, BulkMid, BulkLarge}

\* hand-picked elements of a page: its anchors and its signals (a generated
\* page has none)
PageElems(p) ==
    IF p.bulk > 0 THEN 0
    ELSE Len(p.picked) + (IF p.large THEN 1 ELSE 0) + (IF p.pagination THEN 1 ELSE 0)

\* pages of at most k hand-picked elements, and the generated pages
Pages(k) ==
    {p \in {Page(s, 0, "plain", l, g) :
               s \in SeqsUpTo(AnchorPool, k), l \in BOOLEAN, g \in BOOLEAN} :
       PageElems(p) <= k}
    \cup {Page(<<>>, n, "plain", l, g) : n \in BulkCounts, l \in BOOLEAN, g \in BOOLEAN}
    \cup {Page(<<>>, BulkSmall, "card", l, g) : l \in BOOLEAN, g \in BOOLEAN}

(***************************************************************************)
(* extract_with_playwright (lines 231-268).  An anchor of the rendered     *)
(* page: href is a.get_attribute("href"), text is a.inner_text().strip(),  *)
(* detached says that reading the element raises.                          *)
(***************************************************************************)
PwAnchor(href, text, detached) == [href |-> href, text |-> text, detached |-> detached]

\* lines 250-260: one iteration of the loop over the anchors.
\* acc = [rows, seen, raised]; seen holds the lower-cased texts.
PwStep(acc, a, own) ==
    IF a.detached THEN [acc EXCEPT !.raised = TRUE]
    ELSE IF ~Truthy(a.href) THEN acc
    ELSE LET dom == Domain(a.href)
             text == IF Truthy(a.text) THEN a.text ELSE Capitalize(dom)
         IN IF dom = own \/ dom \in BLOCKLIST_DOMAINS THEN acc
            ELSE IF Lower(text) \in acc.seen \/ text.len > 100 THEN acc
            ELSE [acc EXCEPT !.rows = Append(@, <<text, a.href>>),
                             !.seen = @ \cup {Lower(text)}]

RECURSIVE PwPass(_, _, _)
PwPass(links, acc, own) ==
    IF links = <<>> \/ acc.raised THEN acc
    ELSE CHOOSE out \in {PwPass(rest, step, own) :
                             rest \in {Tail(links)},
                             step \in {PwStep(acc, Head(links), own)}} : TRUE

PExt == PwAnchor(UrlE1, NameA, FALSE)
PExtAgain == PwAnchor(UrlE1, NameB, FALSE)
PSameText == PwAnchor(UrlE2, Lower(NameA), FALSE)
PSelf == PwAnchor(Url("https", "vc", 7), Txt(13, 4), FALSE)
PBlocked == PwAnchor(Url("https", "twitter", 1), Txt(14, 7), FALSE)
PNoDomain == PwAnchor(Url("http", "", 3), Txt(15, 6), FALSE)
PNoText == PwAnchor(Url("https", "delta", 1), EmptyStr, FALSE)
PDetached == PwAnchor(UrlE2, NameB, TRUE)

PwAnchorPool == {PExt, PExtAgain, PSameText, PSelf, PBlocked, PNoDomain,
                 PNoText, PDetached}

PwBulk(n) == [i \in 1..n |-> PwAnchor(Url("https", "listed", i), Txt(300 + i, 6), FALSE)]

PwCounts == {PwMid, PwBig, PwLarge}

\* rendered pages: at most k hand-picked anchors, or a generated list
Rendered(k) == SeqsUpTo(PwAnchorPool, k) \cup {PwBulk(n) : n \in PwCounts}

(***************************************************************************)
(* The escalation decisions of extract_companies.                          *)
(***************************************************************************)
\* Decide with the quality floor dropped: a long list is returned as it is.
DecideKeepsThinList(count, quality, large, pagination) ==
    IF count > 10
    THEN IF quality >= 15 /\ (large \/ pagination) THEN "compare" ELSE "static"
    ELSE "fallthrough"

\* Decide that compares with Playwright whenever the list is adequate.
DecideAlwaysCompares(count, quality, large, pagination) ==
    IF count > 10 /\ quality >= 15 THEN "compare" ELSE "fallthrough"

\* Decide that looks at the large-corpus phrases only.
DecideIgnoresPagination(count, quality, large, pagination) ==
    IF count > 10
    THEN IF quality >= 15 /\ large THEN "compare"
         ELSE IF quality >= 15 THEN "static"
         ELSE "fallthrough"
    ELSE "fallthrough"

\* lines 368, 402 and 418: what follows the static extraction.
\* "compare": call Playwright and compare; "static": return html_rows;
\* "fallthrough": go on to line 425.
Decide(count, quality, large, pagination) ==
    IF count > 10
    THEN IF quality >= 15 /\ (large \/ pagination) THEN "compare"
         ELSE IF quality >= 15 THEN "static"
         ELSE "fallthrough"
    ELSE "fallthrough"

\* Arbitrate with no growth margin: any longer list wins.
ArbitrateAnyGrowth(pw, html) ==
    IF pw # <<>> /\ Len(pw) > Len(html) THEN "dynamic_margin"
    ELSE IF pw # <<>> /\ Len(pw) > 50 THEN "dynamic_count"
    ELSE "static_kept"

\* lines 407-415: which return statement the comparison takes
Arbitrate(pw, html) ==
    IF pw # <<>> /\ Len(pw) * 10 > Len(html) * 12 THEN "dynamic_margin"
    ELSE IF pw # <<>> /\ Len(pw) > 50 THEN "dynamic_count"
    ELSE "static_kept"

\* FallbackChoice that forgets the static rows when Playwright has nothing.
FallbackChoiceForgetsStatic(pw, html) ==
    IF pw # <<>> THEN "dynamic_fallback" ELSE "empty"

\* lines 430-438: which return statement the fall-through takes
FallbackChoice(pw, html) ==
    IF pw = <<>> /\ html # <<>> THEN "static_fallback"
    ELSE IF pw # <<>> THEN "dynamic_fallback"
    ELSE "empty"

\* Returned with a fall-through that hands back whatever Playwright gave.
ReturnedPlaywrightOnFallback(exit0, pw, html) ==
    CASE exit0 \in {"dynamic_margin", "dynamic_count", "dynamic_fallback",
                    "static_fallback"} -> pw
      [] exit0 \in {"static_kept", "static_good"} -> html
      [] OTHER -> <<>>

\* the list a return statement returns
Returned(exit0, pw, html) ==
    CASE exit0 \in {"dynamic_margin", "dynamic_count", "dynamic_fallback"} -> pw
      [] exit0 \in {"static_kept", "static_good", "static_fallback"} -> html
      [] OTHER -> <<>>

\* A handler that returns what was collected before the failure.
HandlerValueKeepsRows(collected) == collected

\* line 268: what the handler of extract_with_playwright returns
HandlerValue(collected) == <<>>

VARIABLES
    target,         \* the url extract_companies was called with
    url,            \* the local variable url
    vc_dom,         \* vc_dom (line 272)
    pc,             \* position in extract_companies
    ep,             \* index of the endpoint the API loop is at
    rows,           \* rows (line 273)
    seen,           \* seen (line 273)
    apiOk,          \* some endpoint answered and its list was processed to the end
    stale,          \* how many of rows were left behind by endpoints that raised
    api_data,       \* api_data (line 287) of the endpoint the run returned from
    fetches,        \* how many times the target page was fetched
    soup,           \* the parsed page
    html_rows,
    anchor_rows,
    html_quality_companies,
    playwright_results,
    pwCalls,        \* the page_url of every call of extract_with_playwright
    pwpc,           \* position in extract_with_playwright
    page_url,       \* its parameter
    pw_vc_dom,      \* its vc_dom (line 240)
    pwRows,         \* its rows
    pwSeen,         \* its seen
    anchors,        \* its anchors (line 248)
    driver,         \* the Playwright driver of the with block: "off", "on"
    browser,        \* the launched browser: "none", "open", "closed"
    page,           \* the opened page: "none", "open", "closed"
    raisedAt,       \* the step at which the last call raised, "" if it did not
    discarded,      \* how many rows that call had collected when its handler ran
    exit,           \* the return statement extract_companies left by
    result,         \* the returned list
    runs,           \* how many calls of extract_companies this execution has
    me,             \* which call the variables above belong to at the moment
    parked          \* the variables of the other call, which is not running

vars == <<target, url, vc_dom, pc, ep, rows, seen, apiOk, stale, api_data, fetches, soup,
          html_rows, anchor_rows, html_quality_companies, playwright_results,
          pwCalls, pwpc, page_url, pw_vc_dom, pwRows, pwSeen, anchors,
          driver, browser, page, raisedAt, discarded, exit, result,
          runs, me, parked>>

peerVars == <<runs, me, parked>>
apiVars == <<ep, rows, apiOk, stale, api_data>>
staticVars == <<fetches, soup, html_rows, anchor_rows, html_quality_companies>>
pwLocals == <<page_url, pw_vc_dom, pwRows, pwSeen, anchors>>
pwSession == <<driver, browser, page>>
pwVars == <<playwright_results, pwCalls, pwpc, page_url, pw_vc_dom, pwRows, pwSeen,
            anchors, driver, browser, page, raisedAt, discarded>>
\* what extract_with_playwright leaves alone
callerVars == <<target, url, vc_dom, pc, ep, rows, seen, apiOk, stale, api_data, fetches, soup,
                html_rows, anchor_rows, html_quality_companies, exit, result>>

\* the target of the other call
PeerUrl == Url("https", "fund", 1)

\* The variables of a call of extract_companies(t) that has not run yet.
FreshRun(t) ==
    [target |-> t, url |-> t, vc_dom |-> Domain(t), pc |-> "api", ep |-> 1,
     rows |-> <<>>, seen |-> {}, apiOk |-> FALSE, stale |-> 0, api_data |-> <<>>,
     fetches |-> 0, soup |-> NoPage, html_rows |-> <<>>, anchor_rows |-> <<>>,
     html_quality_companies |-> 0, playwright_results |-> <<>>, pwCalls |-> <<>>,
     pwpc |-> "idle", page_url |-> EmptyStr, pw_vc_dom |-> "", pwRows |-> <<>>,
     pwSeen |-> {}, anchors |-> <<>>, driver |-> "off", browser |-> "none",
     page |-> "none", raisedAt |-> "", discarded |-> 0, exit |-> "", result |-> <<>>]

\* The variables of the call that is running.
ThisRun ==
    [target |-> target, url |-> url, vc_dom |-> vc_dom, pc |-> pc, ep |-> ep,
     rows |-> rows, seen |-> seen, apiOk |-> apiOk, stale |-> stale,
     api_data |-> api_data, fetches |-> fetches, soup |-> soup,
     html_rows |-> html_rows, anchor_rows |-> anchor_rows,
     html_quality_companies |-> html_quality_companies,
     playwright_results |-> playwright_results, pwCalls |-> pwCalls,
     pwpc |-> pwpc, page_url |-> page_url, pw_vc_dom |-> pw_vc_dom,
     pwRows |-> pwRows, pwSeen |-> pwSeen, anchors |-> anchors,
     driver |-> driver, browser |-> browser, page |-> page,
     raisedAt |-> raisedAt, discarded |-> discarded, exit |-> exit,
     result |-> result]

\* extract_companies(TargetUrl) is entered (lines 271-273); another call,
\* extract_companies(PeerUrl), has not run yet.
InitRun ==
    /\ me = 1
    /\ parked = FreshRun(PeerUrl)
    /\ target = TargetUrl
    /\ url = TargetUrl
    /\ vc_dom = Domain(TargetUrl)
    /\ pc = "api"
    /\ ep = 1
    /\ rows = <<>>
    /\ seen = {}
    /\ apiOk = FALSE
    /\ stale = 0
    /\ api_data = <<>>
    /\ fetches = 0
    /\ soup = NoPage
    /\ html_rows = <<>>
    /\ anchor_rows = <<>>
    /\ html_quality_companies = 0
    /\ playwright_results = <<>>
    /\ pwCalls = <<>>
    /\ pwpc = "idle"
    /\ page_url = EmptyStr
    /\ pw_vc_dom = ""
    /\ pwRows = <<>>
    /\ pwSeen = {}
    /\ anchors = <<>>
    /\ driver = "off"
    /\ browser = "none"
    /\ page = "none"
    /\ raisedAt = ""
    /\ discarded = 0
    /\ exit = ""
    /\ result = <<>>

\* one call of extract_companies
Init ==
    /\ InitRun
    /\ runs = 1

\* two calls of extract_companies, on different targets
InitTwo ==
    /\ InitRun
    /\ runs = 2

\* The inputs of an execution with two calls are kept few: no rows from the
\* API, an empty page or a generated one, nothing or a generated list rendered.
RowBudget == IF runs = 1 THEN MaxElems ELSE 0

PairPages ==
    {Page(<<>>, 0, "plain", FALSE, FALSE)}
    \cup {Page(<<>>, BulkMid, "plain", l, FALSE) : l \in BOOLEAN}

PairRendered == {<<>>, PwBulk(PwMid)}

FetchedPages == IF runs = 1 THEN Pages(MaxElems - Len(rows)) ELSE PairPages

RenderedPages ==
    IF runs = 1 THEN Rendered(MaxElems - Len(rows) - PageElems(soup)) ELSE PairRendered

\* One iteration of the loop over wp_api_endpoints (lines 283-318).
ProbeApi ==
    /\ pc = "api"
    /\ ep <= NumEndpoints
    /\ \E r \in ApiResponses :
         LET out == IF r.kind = "json" THEN ApiLoop(r.items, rows)
                    ELSE [rows |-> rows, raised |-> FALSE]
             \* line 315 is reached
             answered == r.kind = "json" /\ ~out.raised
         IN /\ Len(out.rows) <= RowBudget
            /\ rows' = out.rows
            /\ apiOk' = (apiOk \/ answered)
            /\ stale' = IF answered THEN stale ELSE Len(out.rows)
            /\ IF answered /\ out.rows # <<>>
               THEN /\ pc' = "done"
                    /\ exit' = "api"
                    /\ result' = out.rows
                    /\ ep' = ep
                    /\ api_data' = r.items
               ELSE /\ pc' = IF ep = NumEndpoints THEN "fetch" ELSE "api"
                    /\ UNCHANGED <<exit, result, api_data>>
                    /\ ep' = ep + 1
    /\ UNCHANGED <<target, url, vc_dom, seen>>
    /\ UNCHANGED staticVars
    /\ UNCHANGED pwVars
    /\ UNCHANGED peerVars

\* line 326: fetch(url) raises (timeout, non-2xx), or the page is parsed
Fetch ==
    /\ pc = "fetch"
    /\ fetches' = fetches + 1
    /\ \/ /\ pc' = "fallthrough"
          /\ soup' = soup
       \/ /\ soup' \in FetchedPages
          /\ pc' = "cards"
    /\ UNCHANGED <<target, url, vc_dom, seen, html_rows, anchor_rows,
                   html_quality_companies, exit, result>>
    /\ UNCHANGED apiVars
    /\ UNCHANGED pwVars
    /\ UNCHANGED peerVars

\* lines 329-344
Cards ==
    /\ pc = "cards"
    /\ LET out == CardPass(PageAnchors(soup),
                           [rows |-> anchor_rows, seen |-> seen, raised |-> FALSE],
                           url, vc_dom)
       IN /\ anchor_rows' = out.rows
          /\ seen' = out.seen
          /\ pc' = IF out.raised THEN "fallthrough" ELSE "generic"
    /\ UNCHANGED <<target, url, vc_dom, fetches, soup, html_rows,
                   html_quality_companies, exit, result>>
    /\ UNCHANGED apiVars
    /\ UNCHANGED pwVars
    /\ UNCHANGED peerVars

\* lines 347-356
Generic ==
    /\ pc = "generic"
    /\ LET out == GenericPass(PageAnchors(soup),
                              [rows |-> html_rows, seen |-> seen, raised |-> FALSE],
                              url, vc_dom)
       IN /\ html_rows' = out.rows
          /\ seen' = out.seen
          /\ pc' = IF out.raised THEN "fallthrough" ELSE "merge"
    /\ UNCHANGED <<target, url, vc_dom, fetches, soup, anchor_rows,
                   html_quality_companies, exit, result>>
    /\ UNCHANGED apiVars
    /\ UNCHANGED pwVars
    /\ UNCHANGED peerVars

\* lines 359-365
Merge ==
    /\ pc = "merge"
    /\ html_rows' = MergeRows(anchor_rows, html_rows)
    /\ pc' = "evaluate"
    /\ UNCHANGED <<target, url, vc_dom, seen, fetches, soup, anchor_rows,
                   html_quality_companies, exit, result>>
    /\ UNCHANGED apiVars
    /\ UNCHANGED pwVars
    /\ UNCHANGED peerVars

\* lines 368-420 up to the call of line 404: the quality loop (which binds
\* url to the url of each row in turn) and the choice of what to do next
Evaluate ==
    /\ pc = "evaluate"
    /\ LET quality == IF Len(html_rows) > 10
                      THEN html_quality_companies + QualityCount(html_rows)
                      ELSE html_quality_companies
           next == Decide(Len(html_rows), quality, soup.large, soup.pagination)
       IN /\ html_quality_companies' = quality
          /\ url' = IF Len(html_rows) > 10 THEN html_rows[Len(html_rows)][2] ELSE url
          /\ IF next = "static"
             THEN /\ pc' = "done"
                  /\ exit' = "static_good"
                  /\ result' = html_rows
             ELSE /\ pc' = IF next = "compare" THEN "call_compare" ELSE "fallthrough"
                  /\ UNCHANGED <<exit, result>>
    /\ UNCHANGED <<target, vc_dom, seen, fetches, soup, html_rows, anchor_rows>>
    /\ UNCHANGED apiVars
    /\ UNCHANGED pwVars
    /\ UNCHANGED peerVars

\* the call extract_with_playwright(url) of line 404 or of line 427
CallPlaywright ==
    /\ pc \in {"call_compare", "fallthrough"}
    /\ pc' = IF pc = "call_compare" THEN "in_compare" ELSE "in_fallback"
    /\ pwCalls' = Append(pwCalls, url)
    /\ page_url' = url
    /\ pwpc' = "import"
    /\ raisedAt' = ""
    /\ discarded' = 0
    /\ UNCHANGED <<target, url, vc_dom, seen, exit, result, playwright_results,
                   pw_vc_dom, pwRows, pwSeen, anchors>>
    /\ UNCHANGED apiVars
    /\ UNCHANGED staticVars
    /\ UNCHANGED pwSession
    /\ UNCHANGED peerVars

\* a step of the try block raises: control goes to the handler of line 266
PwRaise ==
    /\ pwpc' = "except"
    /\ raisedAt' = pwpc
    /\ UNCHANGED <<playwright_results, pwCalls, discarded>>
    /\ UNCHANGED pwLocals
    /\ UNCHANGED pwSession

\* lines 237-240
PwImport ==
    /\ pwpc = "import"
    /\ \/ PwRaise
       \/ /\ pwRows' = <<>>
          /\ pwSeen' = {}
          /\ pw_vc_dom' = Domain(page_url)
          /\ pwpc' = "start"
          /\ UNCHANGED <<playwright_results, pwCalls, page_url, anchors,
                         raisedAt, discarded>>
          /\ UNCHANGED pwSession
    /\ UNCHANGED callerVars
    /\ UNCHANGED peerVars

\* line 242: entering the with block starts the driver
PwStart ==
    /\ pwpc = "start"
    /\ \/ PwRaise
       \/ /\ driver' = "on"
          /\ pwpc' = "launch"
          /\ UNCHANGED <<playwright_results, pwCalls, browser, page, raisedAt, discarded>>
          /\ UNCHANGED pwLocals
    /\ UNCHANGED callerVars
    /\ UNCHANGED peerVars

\* line 243
PwLaunch ==
    /\ pwpc = "launch"
    /\ \/ PwRaise
       \/ /\ browser' = "open"
          /\ pwpc' = "new_page"
          /\ UNCHANGED <<playwright_results, pwCalls, driver, page, raisedAt, discarded>>
          /\ UNCHANGED pwLocals
    /\ UNCHANGED callerVars
    /\ UNCHANGED peerVars

\* line 244
PwNewPage ==
    /\ pwpc = "new_page"
    /\ \/ PwRaise
       \/ /\ page' = "open"
          /\ pwpc' = "goto"
          /\ UNCHANGED <<playwright_results, pwCalls, driver, browser, raisedAt, discarded>>
          /\ UNCHANGED pwLocals
    /\ UNCHANGED callerVars
    /\ UNCHANGED peerVars

\* lines 245-246: navigation and the wait for network idle, each may time out
PwGoto ==
    /\ pwpc \in {"goto", "wait"}
    /\ \/ PwRaise
       \/ /\ pwpc' = IF pwpc = "goto" THEN "wait" ELSE "query"
          /\ UNCHANGED <<playwright_results, pwCalls, raisedAt, discarded>>
          /\ UNCHANGED pwLocals
          /\ UNCHANGED pwSession
    /\ UNCHANGED callerVars
    /\ UNCHANGED peerVars

\* line 248
PwQuery ==
    /\ pwpc = "query"
    /\ \/ PwRaise
       \/ /\ anchors' \in RenderedPages
          /\ pwpc' = "loop"
          /\ UNCHANGED <<playwright_results, pwCalls, page_url, pw_vc_dom, pwRows, pwSeen,
                         raisedAt, discarded>>
          /\ UNCHANGED pwSession
    /\ UNCHANGED callerVars
    /\ UNCHANGED peerVars

\* lines 249-260
PwLoop ==
    /\ pwpc = "loop"
    /\ LET out == PwPass(anchors, [rows |-> pwRows, seen |-> pwSeen, raised |-> FALSE],
                         pw_vc_dom)
       IN /\ pwRows' = out.rows
          /\ pwSeen' = out.seen
          /\ pwpc' = IF out.raised THEN "except" ELSE "close"
          /\ raisedAt' = IF out.raised THEN "loop" ELSE raisedAt
    /\ UNCHANGED <<playwright_results, pwCalls, page_url, pw_vc_dom, anchors, discarded>>
    /\ UNCHANGED pwSession
    /\ UNCHANGED callerVars
    /\ UNCHANGED peerVars

\* line 262: browser.close() closes the browser and its pages
PwClose ==
    /\ pwpc = "close"
    /\ \/ PwRaise
       \/ /\ browser' = "closed"
          /\ page' = "closed"
          /\ pwpc' = "exit"
          /\ UNCHANGED <<playwright_results, pwCalls, driver, raisedAt, discarded>>
          /\ UNCHANGED pwLocals
    /\ UNCHANGED callerVars
    /\ UNCHANGED peerVars

\* A driver that stops and leaves its browser and page running.
StopDriverLeavesBrowser ==
    /\ driver' = "off"
    /\ UNCHANGED <<browser, page>>

\* Leaving the with block stops the driver, and with it whatever browser
\* and page it still runs.
StopDriver ==
    /\ driver' = "off"
    /\ browser' = IF browser = "open" THEN "closed" ELSE browser
    /\ page' = IF page = "open" THEN "closed" ELSE page

\* the frame of extract_with_playwright is gone, the caller has its value
PwLeave(value) ==
    /\ playwright_results' = value
    /\ pwpc' = "idle"
    /\ page_url' = EmptyStr
    /\ pw_vc_dom' = ""
    /\ pwRows' = <<>>
    /\ pwSeen' = {}
    /\ anchors' = <<>>
    /\ pc' = IF pc = "in_compare" THEN "compare" ELSE "fallback"
    /\ UNCHANGED <<target, url, vc_dom, seen, exit, result, pwCalls, raisedAt>>
    /\ UNCHANGED apiVars
    /\ UNCHANGED staticVars

\* lines 242 (end of the with block) and 264: return rows
PwReturn ==
    /\ pwpc = "exit"
    /\ StopDriver
    /\ PwLeave(pwRows)
    /\ UNCHANGED discarded
    /\ UNCHANGED peerVars

\* A handler that raises again: no value ever reaches the caller.
PwExceptReraises ==
    /\ pwpc = "except"
    /\ FALSE
    /\ UNCHANGED vars

\* lines 266-268, after the with block (if entered) was left: return []
PwExcept ==
    /\ pwpc = "except"
    /\ IF driver = "on" THEN StopDriver ELSE UNCHANGED pwSession
    /\ discarded' = Len(pwRows)
    /\ PwLeave(HandlerValue(pwRows))
    /\ UNCHANGED peerVars

\* A comparison whose last branch has no return: a kept static list runs on
\* into the fall-through of line 427.
CompareFallsThrough ==
    /\ pc = "compare"
    /\ IF Arbitrate(playwright_results, html_rows) = "static_kept"
       THEN /\ pc' = "fallthrough"
            /\ UNCHANGED <<exit, result>>
       ELSE /\ exit' = Arbitrate(playwright_results, html_rows)
            /\ result' = playwright_results
            /\ pc' = "done"
    /\ UNCHANGED <<target, url, vc_dom, seen>>
    /\ UNCHANGED apiVars
    /\ UNCHANGED staticVars
    /\ UNCHANGED pwVars
    /\ UNCHANGED peerVars

\* lines 407-415
Compare ==
    /\ pc = "compare"
    /\ exit' = Arbitrate(playwright_results, html_rows)
    /\ result' = Returned(exit', playwright_results, html_rows)
    /\ pc' = "done"
    /\ UNCHANGED <<target, url, vc_dom, seen>>
    /\ UNCHANGED apiVars
    /\ UNCHANGED staticVars
    /\ UNCHANGED pwVars
    /\ UNCHANGED peerVars

\* lines 430-438
Fallback ==
    /\ pc = "fallback"
    /\ exit' = FallbackChoice(playwright_results, html_rows)
    /\ result' = Returned(exit', playwright_results, html_rows)
    /\ pc' = "done"
    /\ UNCHANGED <<target, url, vc_dom, seen>>
    /\ UNCHANGED apiVars
    /\ UNCHANGED staticVars
    /\ UNCHANGED pwVars
    /\ UNCHANGED peerVars

\* A call that keeps the module-level names of its session: the driver,
\* browser and page are the same objects for both calls.
SwitchSharedSession ==
    /\ runs = 2
    /\ parked.pc # "done"
    /\ parked' = ThisRun
    /\ me' = 3 - me
    /\ target' = parked.target
    /\ url' = parked.url
    /\ vc_dom' = parked.vc_dom
    /\ pc' = parked.pc
    /\ ep' = parked.ep
    /\ rows' = parked.rows
    /\ seen' = parked.seen
    /\ apiOk' = parked.apiOk
    /\ stale' = parked.stale
    /\ api_data' = parked.api_data
    /\ fetches' = parked.fetches
    /\ soup' = parked.soup
    /\ html_rows' = parked.html_rows
    /\ anchor_rows' = parked.anchor_rows
    /\ html_quality_companies' = parked.html_quality_companies
    /\ playwright_results' = parked.playwright_results
    /\ pwCalls' = parked.pwCalls
    /\ pwpc' = parked.pwpc
    /\ page_url' = parked.page_url
    /\ pw_vc_dom' = parked.pw_vc_dom
    /\ pwRows' = parked.pwRows
    /\ pwSeen' = parked.pwSeen
    /\ anchors' = parked.anchors
    /\ raisedAt' = parked.raisedAt
    /\ discarded' = parked.discarded
    /\ exit' = parked.exit
    /\ result' = parked.result
    /\ UNCHANGED <<runs, driver, browser, page>>

\* The other call is scheduled.  Everything a call works on is local to it
\* (lines 239-244 and 272-273, 321-323), so all of it changes hands.
Switch ==
    /\ runs = 2
    /\ parked.pc # "done"
    /\ parked' = ThisRun
    /\ me' = 3 - me
    /\ target' = parked.target
    /\ url' = parked.url
    /\ vc_dom' = parked.vc_dom
    /\ pc' = parked.pc
    /\ ep' = parked.ep
    /\ rows' = parked.rows
    /\ seen' = parked.seen
    /\ apiOk' = parked.apiOk
    /\ stale' = parked.stale
    /\ api_data' = parked.api_data
    /\ fetches' = parked.fetches
    /\ soup' = parked.soup
    /\ html_rows' = parked.html_rows
    /\ anchor_rows' = parked.anchor_rows
    /\ html_quality_companies' = parked.html_quality_companies
    /\ playwright_results' = parked.playwright_results
    /\ pwCalls' = parked.pwCalls
    /\ pwpc' = parked.pwpc
    /\ page_url' = parked.page_url
    /\ pw_vc_dom' = parked.pw_vc_dom
    /\ pwRows' = parked.pwRows
    /\ pwSeen' = parked.pwSeen
    /\ anchors' = parked.anchors
    /\ driver' = parked.driver
    /\ browser' = parked.browser
    /\ page' = parked.page
    /\ raisedAt' = parked.raisedAt
    /\ discarded' = parked.discarded
    /\ exit' = parked.exit
    /\ result' = parked.result
    /\ UNCHANGED runs

Next ==
    \/ ProbeApi
    \/ Fetch
    \/ Cards
    \/ Generic
    \/ Merge
    \/ Evaluate
    \/ CallPlaywright
    \/ PwImport
    \/ PwStart
    \/ PwLaunch
    \/ PwNewPage
    \/ PwGoto
    \/ PwQuery
    \/ PwLoop
    \/ PwClose
    \/ PwReturn
    \/ PwExcept
    \/ Compare
    \/ Fallback

Spec == Init /\ [][Next]_vars

NextTwo ==
    \/ Next
    \/ Switch

\* two calls of extract_companies whose steps interleave in any order
TwoRuns == InitTwo /\ [][NextTwo]_vars

\* extract_companies is one sequential call: whatever step is next is taken,
\* and every blocking operation has a timeout (lines 43, 68, 245, 285)
LiveSpec == Init /\ [][Next]_vars /\ WF_vars(Next)

(***************************************************************************)
(* Properties.                                                             *)
(***************************************************************************)
Done == pc = "done"
StaticExits == {"static_kept", "static_good", "static_fallback"}
DynamicExits == {"dynamic_margin", "dynamic_count", "dynamic_fallback"}

\* C1: every record of a returned list has a URL whose registrable domain
\* is neither the target's own domain nor a blocked domain.
NoSelfOrBlockedUrl ==
    Done => \A i \in 1..Len(result) :
                /\ Domain(result[i][2]) # Domain(target)
                /\ Domain(result[i][2]) \notin BLOCKLIST_DOMAINS

\* C2: no two records of a returned list share the same url.
NoTwoRecordsShareUrl ==
    Done => \A i, j \in 1..Len(result) : i # j => result[i][2] # result[j][2]

\* C3: once an endpoint has answered successfully, the run returns the API
\* rows (possibly none) and neither fetches the page nor calls Playwright.
ApiAnswerIsAuthoritative ==
    apiOk => /\ fetches = 0
             /\ pwCalls = <<>>
             /\ Done => (exit = "api" /\ result = rows)

\* C4: when no endpoint yielded rows and the static list is below the adequacy
\* threshold (at most 10 candidates, or fewer than 15 quality names), the
\* run has called extract_with_playwright exactly once when it returns.
EscalatesOnceBelowThreshold ==
    (Done /\ exit # "api" /\ (Len(html_rows) <= 10 \/ html_quality_companies < 15))
        => Len(pwCalls) = 1

ThinListEscalated ==
    /\ Done
    /\ ~apiOk
    /\ Len(html_rows) > 10
    /\ html_quality_companies < 15
    /\ Len(pwCalls) = 1

\* C5: an adequate static list on a page with neither signal is returned as
\* it is, and extract_with_playwright is never called.
AdequateStaticIsFinal ==
    (Len(html_rows) > 10 /\ html_quality_companies >= 15
        /\ ~soup.large /\ ~soup.pagination)
        => (pwCalls = <<>> /\ Done /\ exit = "static_good" /\ result = html_rows)

AdequateStaticReturned ==
    /\ Done
    /\ exit = "static_good"
    /\ html_quality_companies >= 15
    /\ ~soup.large /\ ~soup.pagination
    /\ result = html_rows
    /\ pwCalls = <<>>

\* C6: when the fetched page has a pagination control or a large-corpus
\* phrase, the run calls extract_with_playwright, whatever the static count.
SignalForcesEscalation ==
    (Done /\ fetches > 0 /\ (soup.large \/ soup.pagination)) => Len(pwCalls) >= 1

PaginationEscalatedAdequateList ==
    /\ Done
    /\ soup.pagination /\ ~soup.large
    /\ Len(html_rows) >= 40
    /\ html_quality_companies >= 15
    /\ Len(pwCalls) = 1

\* both lists exist, the static one is adequate, the dynamic one is 1.1
\* times as long
TenPercentMore ==
    /\ Done
    /\ pwCalls # <<>>
    /\ Len(html_rows) > 10 /\ html_quality_companies >= 15
    /\ Len(playwright_results) * 10 = Len(html_rows) * 11

\* C7 as stated: an adequate static list wins over a dynamic list that is
\* 1.1 times as long.
StaticWinsAtTenPercent ==
    TenPercentMore => (exit = "static_kept" /\ result = html_rows)

\* C7: an adequate static list wins over a dynamic list that is 1.1 times
\* as long and has no more than 50 records.
StaticWinsAtTenPercentUpTo50 ==
    (TenPercentMore /\ Len(playwright_results) <= 50)
        => (exit = "static_kept" /\ result = html_rows)

StaticKeptAtTenPercent ==
    /\ TenPercentMore
    /\ Len(playwright_results) <= 50
    /\ exit = "static_kept"
    /\ result = html_rows

\* C8: with a non-empty static list and a dynamic list, the dynamic list is
\* returned only if it is more than 1.2 times as long or has more than 50
\* records, the static list is returned otherwise, and a dynamic list never
\* replaces a longer static list.
DynamicOnlyWhenMateriallyMore ==
    (Done /\ html_rows # <<>> /\ pwCalls # <<>>)
        => LET more == \/ Len(playwright_results) * 10 > Len(html_rows) * 12
                       \/ Len(playwright_results) > 50
           IN /\ exit \in DynamicExits => more
              /\ exit \in DynamicExits => Len(playwright_results) >= Len(html_rows)
              /\ exit \notin DynamicExits => (exit \in StaticExits /\ result = html_rows)

\* C9: when extract_with_playwright returns nothing and the static
\* extraction has candidates, the static list is returned unchanged.
EmptyDynamicKeepsStatic ==
    (Done /\ pwCalls # <<>> /\ playwright_results = <<>> /\ html_rows # <<>>)
        => (exit \in {"static_kept", "static_fallback"} /\ result = html_rows)

StaticKeptAfterEmptyComparison ==
    /\ Done
    /\ exit = "static_kept"
    /\ playwright_results = <<>>
    /\ html_rows # <<>>
    /\ result = html_rows

\* C10: a call of extract_with_playwright in which a step failed hands the
\* empty list to its caller, which goes on; rows collected before the
\* failure are dropped.
PlaywrightFailureYieldsEmpty ==
    (pwpc = "idle" /\ raisedAt # "")
        => (playwright_results = <<>> /\ pc \in {"compare", "fallback", "done"})

RowsDroppedOnFailure ==
    /\ Done
    /\ raisedAt \in {"loop", "close"}
    /\ discarded > 0
    /\ playwright_results = <<>>
\* C11: once extract_with_playwright has returned, by whatever path, the
\* driver it started is stopped and no browser or page it opened is open.
SessionTornDown ==
    pwpc = "idle" => (driver = "off" /\ browser # "open" /\ page # "open")

TornDownAfterTimeout ==
    /\ pwpc = "idle"
    /\ raisedAt \in {"goto", "wait"}
    /\ driver = "off"
    /\ browser = "closed"
    /\ page = "closed"

\* C12: every run of extract_companies comes to a return statement and
\* hands back a list, whichever of its strategies fail on the way.
AlwaysReturnsAList ==
    <>(Done /\ exit \in {"api", "empty"} \cup StaticExits \cup DynamicExits
            /\ result \in Seq({result[i] : i \in 1..Len(result)}))

\* an endpoint raised after a row was appended, the fetch failed and
\* extract_with_playwright failed: the run returned the empty list
ReturnedAfterEveryFailure ==
    /\ Done
    /\ ~apiOk /\ rows # <<>>
    /\ fetches = 1 /\ soup = NoPage
    /\ raisedAt # ""
    /\ exit = "empty"
    /\ result = <<>>

\* The urls the reference keeps: of the anchors in document order, those
\* whose resolved url has a domain that is extractable, not the target's own
\* and not blocked, each resolved url once.
RECURSIVE ReferenceUrls(_, _, _, _)
ReferenceUrls(links, kept, base, own) ==
    IF links = <<>> THEN kept
    ELSE LET h == Normalize(Head(links).href)
             href == UrlJoin(base, h)
             keep == /\ ~JoinRaises(h)
                     /\ ~Rejected(Domain(href), own)
                     /\ \A i \in 1..Len(kept) : kept[i] # href
         IN ReferenceUrls(Tail(links), IF keep THEN Append(kept, href) ELSE kept,
                          base, own)

UrlsOf(rs) == [i \in 1..Len(rs) |-> rs[i][2]]

\* C13: the static candidate list holds, in document order, exactly the
\* anchors of the page whose resolved url has an extractable domain that is
\* neither the target's own nor blocked, each resolved url once.
StaticListIsReference ==
    pc = "evaluate"
        => UrlsOf(html_rows) = ReferenceUrls(PageAnchors(soup), <<>>, target, Domain(target))

\* What the mapping of API records promises for a list of records: one row
\* for each record that has a name, in input order, with the record's url
\* or, without one, the placeholder.
RECURSIVE ExpectedRows(_)
ExpectedRows(items) ==
    IF items = <<>> THEN <<>>
    ELSE LET item == Head(items)
             named == item.isdict /\ ~NameRaises(item) /\ Truthy(ItemName(item))
             website == ItemWebsite(item)
             row == <<ItemName(item),
                      IF Truthy(website) THEN website ELSE Placeholder(ItemName(item))>>
         IN (IF named THEN <<row>> ELSE <<>>) \o ExpectedRows(Tail(items))

\* C14: the rows an answering endpoint adds are one row for each of its
\* records that has a name, in input order, with the record's url or the
\* placeholder.
EveryNamedRecordIsMapped ==
    exit = "api" => SubSeq(result, stale + 1, Len(result)) = ExpectedRows(api_data)

\* What the static extraction of extract_companies(t) yields for a page when
\* nothing else runs: both passes from an empty seen set, then the merge.
StaticAlone(p, t) ==
    LET fresh == [rows |-> <<>>, seen |-> {}, raised |-> FALSE]
        cards == CardPass(PageAnchors(p), fresh, t, Domain(t))
        generic == GenericPass(PageAnchors(p), [fresh EXCEPT !.seen = cards.seen],
                               t, Domain(t))
    IN MergeRows(cards.rows, generic.rows)

\* What extract_with_playwright(u) collects from a rendered page when nothing
\* else runs.
PwAlone(links, u) ==
    PwPass(links, [rows |-> <<>>, seen |-> {}, raised |-> FALSE], Domain(u)).rows

\* C15: with two calls of extract_companies on different targets whose
\* steps interleave in any order, each call's static list, Playwright rows
\* and returned list are the ones it yields alone, and the browser session a
\* call started stays up until that call leaves it.
RunsAreIsolated ==
    /\ vc_dom = Domain(target)
    /\ pc = "evaluate" => html_rows = StaticAlone(soup, target)
    /\ pwpc = "close" => pwRows = PwAlone(anchors, page_url)
    /\ pwpc \in {"launch", "new_page", "goto", "wait", "query", "loop", "close", "exit"}
          => driver = "on"
    /\ pwpc \in {"goto", "wait", "query", "loop", "close"}
          => (browser = "open" /\ page = "open")
    /\ (Done /\ exit \in StaticExits) => result = StaticAlone(soup, target)
    /\ (Done /\ exit \in DynamicExits) => result = playwright_results

\* both calls have returned a list, and the first one was resumed after the
\* second had started and before it had returned
BothReturnedInterleaved ==
    /\ runs = 2
    /\ me = 1
    /\ Done /\ exit \in StaticExits /\ result # <<>>
    /\ parked.pc = "done" /\ parked.exit \in DynamicExits /\ parked.result # <<>>

\* normalize as it is specified: "" for the empty string, "https:" put
\* before a string that starts with "//" (six characters longer, an https
\* url of the same host), any other string as it is.
PrefixedWithScheme(u) ==
    IF ~Truthy(u) THEN EmptyStr
    ELSE IF u.form = "schemerel"
         THEN [u EXCEPT !.form = "https", !.len = u.len + 6]
         ELSE u

\* C16: for every href the passes have normalized, normalize returned ""
\* for the empty string, "https:" followed by the whole input for an input
\* that starts with "//", and the input itself otherwise.
NormalizeKeepsInput ==
    pc \in {"generic", "merge", "evaluate"}
        => \A i \in 1..Len(PageAnchors(soup)) :
               Normalize(PageAnchors(soup)[i].href)
                   = PrefixedWithScheme(PageAnchors(soup)[i].href)

\* C17: no list of candidates (static, Playwright) and no returned list
\* holds a record whose url has no extractable domain.
NoRecordWithoutDomain ==
    \A rs \in {html_rows, anchor_rows, pwRows, playwright_results,
                IF exit = "api" THEN <<>> ELSE result} :
        \A i \in 1..Len(rs) : Domain(rs[i][2]) # ""

\* C18: the page is fetched only after every endpoint has been probed and
\* the API loop has returned nothing, and at most once; extract_with_playwright
\* is called only after the static extraction has come to its end, and at
\* most once.
StrategiesInOrder ==
    /\ fetches <= 1
    /\ fetches = 1 => (ep = NumEndpoints + 1 /\ exit # "api")
    /\ pc \in {"cards", "generic", "merge", "evaluate"} => (fetches = 1 /\ pwCalls = <<>>)
    /\ Len(pwCalls) <= 1
    /\ pwCalls # <<>> => (fetches = 1 /\ pc \in {"in_compare", "compare", "in_fallback",
                                                  "fallback", "done"})
    /\ pwpc # "idle" => pc \in {"in_compare", "in_fallback"}

AllThreeStrategiesRan ==
    /\ Done
    /\ ep = NumEndpoints + 1
    /\ fetches = 1
    /\ html_rows # <<>>
    /\ Len(pwCalls) = 1
    /\ exit = "static_kept"

ApiRowsFromOneEndpoint ==
    exit = "api" => (stale = 0 /\ result = ApiLoop(api_data, <<>>).rows)

\* C21: every call of extract_with_playwright is given the target page URL
\* that extract_companies was called with, at the call of line 404 and at
\* the call of line 427, whatever the static extraction found.
PlaywrightGetsTargetUrl ==
    \A i \in DOMAIN pwCalls : pwCalls[i] = target

====
